---- MODULE Spec2Model ----
(***************************************************************************)
(* Model of python-constant-time-string-stats.                             *)
(*                                                                         *)
(*   stats.py  the sample generator: comparison strategies, loop-count     *)
(*             calibration, difference-controlled pairs, CSV rows          *)
(*   plots.py  the visualizer: the reduced tick set of the x axis          *)
(*                                                                         *)
(* Strings are sequences of one-character strings.  Time is counted in     *)
(* integer timer ticks; a per-call average (t1 - t0) / loops is kept as    *)
(* the fraction [num, den].  Python's None is the empty sequence and a     *)
(* present value v is <<v>>.                                               *)
(***************************************************************************)
EXTENDS Integers, Sequences, FiniteSets

VARIABLES
    prog,                  \* which script runs: "stats" or "plots"
    FUNCTIONS,             \* stats.py: the registry (set of registered names)
    args,                  \* stats.py: the parsed command line
    rng,                   \* the environment: None = any outcome, <<k>> = replay position k
    pc,                    \* stats.py/plots.py: position in main()
    error,                 \* the exception that ended the run, or None
    max_difference_index,  \* stats.py main: local
    loops_config,          \* stats.py main: name -> loop count
    k,                     \* index of the current name in the list being iterated
    order,                 \* stats.py main: sorted(possible_functions)
    tmp,                   \* stats.py main: calibration input
    potential_loops,       \* stats.py main: local
    trial,                 \* runs measured by the calibration in progress: <<[n, dt], ...>>
    calib_log,             \* name -> the measured runs of its finished calibration
    f,                     \* the output file: [state, lines]
    i,                     \* stats.py main: sample counter
    first_difference,      \* stats.py main: local
    a,                     \* stats.py main: local
    b,                     \* stats.py main: local
    call,                  \* the strategy call just made, with its return value, or None
    called,                \* names of the strategies called so far
    samples,               \* the samples generated so far, in generation order
    df,                    \* plots.py: the "first difference" column read
    ticks,                 \* plots.py main: local
    x_ticks                \* plots.py main: local

vars == <<prog, FUNCTIONS, args, rng, pc, error, max_difference_index,
          loops_config, k, order, tmp, potential_loops, trial, calib_log, f,
          i, first_difference, a, b, call, called, samples, df, ticks, x_ticks>>

----------------------------------------------------------------------------
(* Bounds of the model *)

MaxLength == 2
MaxNumValues == 2
MaxElapsed == 1
MaxPotentialLoops == 4
NumSeeds == 2
MaxDiffValue == 8

----------------------------------------------------------------------------
(* Python values *)

None == <<>>
Some(v) == <<v>>
IsNone(x) == x = <<>>
Val(x) == x[1]

Min(x, y) == IF x <= y THEN x ELSE y
Max(x, y) == IF x >= y THEN x ELSE y

\* string.ascii_letters, abridged to two letters
ascii_letters == <<"a", "b">>

\* ord() on the letters of the model
ord(c) == CASE c = "a" -> 97 [] c = "b" -> 98

RECURSIVE BitXor(_, _)
BitXor(x, y) ==
    IF x = 0 /\ y = 0 THEN 0
    ELSE (((x % 2) + (y % 2)) % 2) + 2 * BitXor(x \div 2, y \div 2)

RECURSIVE BitOr(_, _)
BitOr(x, y) ==
    IF x = 0 /\ y = 0 THEN 0
    ELSE Max(x % 2, y % 2) + 2 * BitOr(x \div 2, y \div 2)

\* s[:n]
Prefix(s, n) == SubSeq(s, 1, Min(Max(n, 0), Len(s)))

\* str.encode("UTF-8") of ASCII letters
encode(s) == [j \in DOMAIN s |-> ord(s[j])]

\* all strings of length n over ascii_letters (n < 0 gives the empty string)
Strings(n) ==
    [1..Max(n, 0) -> {ascii_letters[j] : j \in DOMAIN ascii_letters}]

----------------------------------------------------------------------------
(* stats.py: the comparison strategies *)

equals_operator(x, y) == x = y

RECURSIVE AndEqLoop(_, _, _, _)
AndEqLoop(x, y, j, result) ==
    IF j > Len(x) THEN result
    ELSE AndEqLoop(x, y, j + 1, result /\ (x[j] = y[j]))

andeq(x, y) ==
    IF Len(x) # Len(y) THEN FALSE ELSE AndEqLoop(x, y, 1, TRUE)

RECURSIVE XorLoop(_, _, _, _)
XorLoop(x, y, j, result) ==
    IF j > Len(x) THEN result
    ELSE XorLoop(x, y, j + 1, BitOr(result, BitXor(ord(x[j]), ord(y[j]))))

xor_bytes(x, y) ==
    IF Len(x) # Len(y) THEN FALSE ELSE XorLoop(x, y, 1, 0) = 0

\* A digest is lossy: here the byte sum, keyed by a salt, modulo 4.
RECURSIVE ByteSum(_, _)
ByteSum(bytes, j) ==
    IF j > Len(bytes) THEN 0 ELSE bytes[j] * j + ByteSum(bytes, j + 1)

Digest(key, bytes) == (key + ByteSum(bytes, 1)) % 4

\* hashlib.md5(data): a new hash object; oid is its identity
md5(data, oid) == [oid |-> oid, digest |-> Digest(0, data)]

\* == on objects of a class that defines no __eq__ (hashlib's hash objects):
\* object identity
ObjectEq(x, y) == x.oid = y.oid

\* the two md5(...) calls build two distinct objects
Md5ObjectsEqual(x, y) == ObjectEq(md5(encode(x), 1), md5(encode(y), 2))

hash_compare(x, y) == Md5ObjectsEqual(x, y) /\ x = y

\* hmac.new(salt, msg).digest()
hmac_digest(salt, msg) == Digest(salt, msg)

\* os.urandom(8), abridged
Salts == {0, 1}

salted_hash_compare(x, y, salt) ==
    hmac_digest(salt, encode(x)) = hmac_digest(salt, encode(y)) /\ x = y

\* hmac.compare_digest on ASCII strings
compare_digest(x, y) == Len(x) = Len(y) /\ x = y

BaseNames ==
    {"equals_operator", "andeq", "xor_bytes", "hash_compare",
     "salted_hash_compare"}

\* a name no registry holds
UnknownName == "strcmp"

\* FUNCTIONS[name](x, y), with the salt salted_hash_compare draws
Apply(name, x, y, salt) ==
    CASE name = "equals_operator" -> equals_operator(x, y)
      [] name = "andeq" -> andeq(x, y)
      [] name = "xor_bytes" -> xor_bytes(x, y)
      [] name = "hash_compare" -> hash_compare(x, y)
      [] name = "salted_hash_compare" -> salted_hash_compare(x, y, salt)
      [] name = "compare_digest" -> compare_digest(x, y)

\* the values a call of FUNCTIONS[name](x, y) can return
Returns(name, x, y) == {Apply(name, x, y, salt) : salt \in Salts}

\* list(FUNCTIONS.keys()): the registry in insertion order
RegistryOrder ==
    <<"equals_operator", "andeq", "xor_bytes", "hash_compare",
      "salted_hash_compare", "compare_digest">>

function_names(registry) == SelectSeq(RegistryOrder, LAMBDA n : n \in registry)

\* the order of str on the names of the model
NameOrder ==
    <<"andeq", "compare_digest", "equals_operator", "hash_compare",
      "salted_hash_compare", "strcmp", "xor_bytes">>

NameRank(n) == CHOOSE j \in DOMAIN NameOrder : NameOrder[j] = n

RECURSIVE Insert(_, _)
Insert(sortedSeq, n) ==
    IF sortedSeq = <<>> THEN <<n>>
    ELSE IF NameRank(n) < NameRank(Head(sortedSeq)) THEN <<n>> \o sortedSeq
    ELSE <<Head(sortedSeq)>> \o Insert(Tail(sortedSeq), n)

RECURSIVE SortNames(_)
SortNames(names) ==
    IF names = <<>> THEN <<>>
    ELSE Insert(SortNames(SubSeq(names, 1, Len(names) - 1)), names[Len(names)])

\* faulty variant: the names are benchmarked in the order given
BenchOrderAsGiven(names) == names

\* the order in which main() benchmarks the requested names
BenchOrder(names) == SortNames(names)

----------------------------------------------------------------------------
(* The environment: random, perf_counter.  With rng = None every outcome   *)
(* is possible; with rng = <<n>> the outcomes are those of a fixed replay, *)
(* read at position n, which long runs use.                                *)

Tape(n) == (n * n) \div 3 + n \div 2 + n \div 7

Advance(r, n) == IF IsNone(r) THEN r ELSE Some(Val(r) + n)

\* random.randint(lo, hi), lo <= hi
RandInts(r, lo, hi) ==
    IF IsNone(r) THEN lo..hi ELSE {lo + (Tape(Val(r)) % (hi - lo + 1))}

\* random.choice(string.ascii_letters)
RandomChoices(r) ==
    IF IsNone(r) THEN {ascii_letters[j] : j \in DOMAIN ascii_letters}
    ELSE {ascii_letters[(Tape(Val(r)) % Len(ascii_letters)) + 1]}

\* random_string(length), drawn from position off of the replay
random_string(r, off, length) ==
    IF IsNone(r) THEN Strings(length)
    ELSE {[j \in 1..Max(length, 0) |->
             ascii_letters[(Tape(Val(r) + off + j) % Len(ascii_letters)) + 1]]}

\* t1 - t0 of two perf_counter() readings around a block: the clock is monotonic
Durations(r) ==
    IF IsNone(r) THEN 0..MaxElapsed ELSE {Tape(Val(r)) % (MaxElapsed + 1)}

----------------------------------------------------------------------------
(* stats.py main() *)

HEADER == <<"function", "password length", "first difference", "time">>

Put(m, key, v) == [x \in DOMAIN m \cup {key} |-> IF x = key THEN v ELSE m[x]]

possible_functions == args.functions

\* argparse's result: --max-difference-index defaults to length - 1
ResolvedMaxDifferenceIndex(ar) ==
    IF IsNone(ar.max_difference_index) THEN ar.length - 1
    ELSE Val(ar.max_difference_index)

\* faulty variant: the check lets max_difference_index = length through
BadMaxDifferenceIndexOffByOne(mdi, length) == mdi > length

\* the configuration check
BadMaxDifferenceIndex(mdi, length) == mdi >= length

\* t1 - t0 >= min_time
MetThreshold(dt, min_time) == dt >= min_time

\* faulty variant: the loop count grows by one instead of doubling
NextPotentialLoopsPlusOne(n) == n + 1

\* potential_loops *= 2
NextPotentialLoops(n) == n * 2

\* num_values // max_difference_index raises on a zero divisor
DivisionRaises(divisor) == divisor = 0

\* the with-block closes the file when an exception leaves it
Closed(file) == [file EXCEPT !.state = IF @ = "open" THEN "closed" ELSE @]

Raise(type, line) ==
    /\ pc' = "raised"
    /\ error' = Some([type |-> type, line |-> line])
    /\ f' = Closed(f)

\* the calls function(x, y) of one block: count of them, and what the last returned
Calls(name, x, y, count, kind) ==
    IF count > 0
    THEN {Some([name |-> name, a |-> x, b |-> y, ret |-> r, kind |-> kind]) :
            r \in Returns(name, x, y)}
    ELSE {None}

ParseArgs ==
    /\ prog = "stats" /\ pc = "start"
    /\ max_difference_index' = ResolvedMaxDifferenceIndex(args)
    /\ IF BadMaxDifferenceIndex(max_difference_index', args.length)
       THEN /\ Raise("ValueError", 158)
            /\ UNCHANGED k
       ELSE /\ pc' = "calibrate"
            /\ k' = 1
            /\ UNCHANGED <<error, f>>
    /\ UNCHANGED <<prog, FUNCTIONS, args, rng, loops_config, order, tmp,
                   potential_loops, trial, calib_log, i, first_difference,
                   a, b, call, called, samples, df, ticks, x_ticks>>

\* loops_config[name] = loops
ConfigureFixed ==
    /\ prog = "stats" /\ pc = "calibrate"
    /\ k <= Len(possible_functions)
    /\ ~IsNone(args.loops)
    /\ loops_config' = Put(loops_config, possible_functions[k], Val(args.loops))
    /\ k' = k + 1
    /\ call' = None
    /\ UNCHANGED <<prog, FUNCTIONS, args, rng, pc, error, max_difference_index,
                   order, tmp, potential_loops, trial, calib_log, f, i,
                   first_difference, a, b, called, samples, df, ticks, x_ticks>>

\* function = FUNCTIONS[name]; tmp = random_string(length); the warm-up calls
CalibrateBegin ==
    /\ prog = "stats" /\ pc = "calibrate"
    /\ k <= Len(possible_functions)
    /\ IsNone(args.loops)
    /\ LET name == possible_functions[k] IN
       IF name \notin FUNCTIONS
       THEN /\ Raise("KeyError", 170)
            /\ call' = None
            /\ UNCHANGED <<rng, tmp, potential_loops, trial, called>>
       ELSE /\ tmp' \in random_string(rng, 0, args.length)
            /\ rng' = Advance(rng, args.length)
            /\ call' \in Calls(name, tmp', tmp', args.warmups, "calibration warmup")
            /\ called' = IF args.warmups > 0 THEN called \cup {name} ELSE called
            /\ potential_loops' = 1
            /\ trial' = <<>>
            /\ pc' = "measure"
            /\ UNCHANGED <<error, f>>
    /\ UNCHANGED <<prog, FUNCTIONS, args, max_difference_index, loops_config, k,
                   order, calib_log, i, first_difference, a, b, samples, df,
                   ticks, x_ticks>>

\* one pass of the while True loop: time potential_loops calls, stop or double
CalibrateMeasure ==
    /\ prog = "stats" /\ pc = "measure"
    /\ LET name == possible_functions[k] IN
       \E dt \in Durations(rng) :
        /\ ~MetThreshold(dt, args.min_time)
             => NextPotentialLoops(potential_loops) <= MaxPotentialLoops
        /\ rng' = Advance(rng, 1)
        /\ call' \in Calls(name, tmp, tmp, potential_loops, "calibration")
        /\ called' = IF potential_loops > 0 THEN called \cup {name} ELSE called
        /\ trial' = Append(trial, [n |-> potential_loops, dt |-> dt])
        /\ IF MetThreshold(dt, args.min_time)
           THEN /\ loops_config' = Put(loops_config, name, potential_loops)
                /\ calib_log' = Put(calib_log, name, trial')
                /\ k' = k + 1
                /\ pc' = "calibrate"
                /\ UNCHANGED potential_loops
           ELSE /\ potential_loops' = NextPotentialLoops(potential_loops)
                /\ UNCHANGED <<loops_config, calib_log, k, pc>>
    /\ UNCHANGED <<prog, FUNCTIONS, args, error, max_difference_index, order,
                   tmp, f, i, first_difference, a, b, samples, df, ticks,
                   x_ticks>>

\* the print of the "values per index" report after the calibration loop
Report ==
    /\ prog = "stats" /\ pc = "calibrate"
    /\ k > Len(possible_functions)
    /\ IF DivisionRaises(max_difference_index)
       THEN Raise("ZeroDivisionError", 189)
       ELSE /\ pc' = "open"
            /\ UNCHANGED <<error, f>>
    /\ call' = None
    /\ UNCHANGED <<prog, FUNCTIONS, args, rng, max_difference_index,
                   loops_config, k, order, tmp, potential_loops, trial,
                   calib_log, i, first_difference, a, b, called, samples, df,
                   ticks, x_ticks>>

\* open(out, "w"); writer.writerow(header); sorted(possible_functions)
OpenFile ==
    /\ prog = "stats" /\ pc = "open"
    /\ f' = [state |-> "open", lines |-> <<HEADER>>]
    /\ order' = BenchOrder(possible_functions)
    /\ k' = 1
    /\ pc' = "bench"
    /\ UNCHANGED <<prog, FUNCTIONS, args, rng, error, max_difference_index,
                   loops_config, tmp, potential_loops, trial, calib_log, i,
                   first_difference, a, b, call, called, samples, df, ticks,
                   x_ticks>>

\* the for loop over the sorted names is exhausted: the with-block ends
BenchDone ==
    /\ prog = "stats" /\ pc = "bench"
    /\ k > Len(order)
    /\ f' = Closed(f)
    /\ pc' = "done"
    /\ call' = None
    /\ UNCHANGED <<prog, FUNCTIONS, args, rng, error, max_difference_index,
                   loops_config, k, order, tmp, potential_loops, trial,
                   calib_log, i, first_difference, a, b, called, samples, df,
                   ticks, x_ticks>>

\* function = FUNCTIONS[name]; loops = loops_config[name]; start range(1, num_values + 1)
BenchNext ==
    /\ prog = "stats" /\ pc = "bench"
    /\ k <= Len(order)
    /\ IF order[k] \notin FUNCTIONS
       THEN /\ Raise("KeyError", 196)
            /\ UNCHANGED <<k, i>>
       ELSE /\ IF args.num_values >= 1
               THEN i' = 1 /\ pc' = "sample" /\ k' = k
               ELSE i' = i /\ pc' = "bench" /\ k' = k + 1
            /\ UNCHANGED <<error, f>>
    /\ call' = None
    /\ UNCHANGED <<prog, FUNCTIONS, args, rng, max_difference_index,
                   loops_config, order, tmp, potential_loops, trial, calib_log,
                   first_difference, a, b, called, samples, df, ticks, x_ticks>>

\* b = a[:first_difference] + random_string(length - first_difference)
MakeAttempt(x, d, suffix) == Prefix(x, d) \o suffix

\* the progress print, first_difference, a and b of one sample
SampleBegin ==
    /\ prog = "stats" /\ pc = "sample"
    /\ call' = None
    /\ IF args.print_every = 0
       THEN /\ Raise("ZeroDivisionError", 199)
            /\ UNCHANGED <<rng, first_difference, a, b, samples>>
       ELSE IF max_difference_index < 0
       THEN /\ Raise("ValueError", 202)
            /\ UNCHANGED <<rng, first_difference, a, b, samples>>
       ELSE /\ \E d \in RandInts(rng, 0, max_difference_index) :
               \E x \in random_string(rng, 1, args.length) :
               \E suffix \in random_string(rng, 1 + args.length, args.length - d) :
                 /\ first_difference' = d
                 /\ a' = x
                 /\ b' = MakeAttempt(x, d, suffix)
            /\ rng' = Advance(rng, 1 + 2 * args.length)
            /\ samples' = Append(samples, [name |-> order[k], i |-> i,
                                           d |-> first_difference'])
            /\ pc' = "regenerate"
            /\ UNCHANGED <<error, f>>
    /\ UNCHANGED <<prog, FUNCTIONS, args, max_difference_index, loops_config, k,
                   order, tmp, potential_loops, trial, calib_log, i, called,
                   df, ticks, x_ticks>>

\* faulty variant: the loop condition is inverted
MustRegenerateInverted(x, y, d) == y[d + 1] # x[d + 1]

\* while b[first_difference] == a[first_difference]
MustRegenerate(x, y, d) == y[d + 1] = x[d + 1]

\* the list comprehension: a new letter at first_difference, the rest kept
ReplaceAt(y, d, c) == [j \in DOMAIN y |-> IF j - 1 = d THEN c ELSE y[j]]

Regenerate ==
    /\ prog = "stats" /\ pc = "regenerate"
    /\ first_difference < Len(b) /\ first_difference < Len(a)
    /\ MustRegenerate(a, b, first_difference)
    /\ \E c \in RandomChoices(rng) : b' = ReplaceAt(b, first_difference, c)
    /\ rng' = Advance(rng, 1)
    /\ UNCHANGED <<prog, FUNCTIONS, args, pc, error, max_difference_index,
                   loops_config, k, order, tmp, potential_loops, trial,
                   calib_log, f, i, first_difference, a, call, called, samples,
                   df, ticks, x_ticks>>

\* the condition of the assert statement
AssertCondition(x, y, d) ==
    /\ Len(x) = Len(y)
    /\ x # y
    /\ Prefix(x, d) = Prefix(y, d)
    /\ d < Len(x) /\ d < Len(y) /\ x[d + 1] # y[d + 1]

\* the while loop ends (or indexes past the end); then the assert
AssertPair ==
    /\ prog = "stats" /\ pc = "regenerate"
    /\ IF first_difference >= Len(b) \/ first_difference >= Len(a)
       THEN Raise("IndexError", 206)
       ELSE /\ ~MustRegenerate(a, b, first_difference)
            /\ IF AssertCondition(a, b, first_difference)
               THEN pc' = "time" /\ UNCHANGED <<error, f>>
               ELSE Raise("AssertionError", 212)
    /\ UNCHANGED <<prog, FUNCTIONS, args, rng, max_difference_index,
                   loops_config, k, order, tmp, potential_loops, trial,
                   calib_log, i, first_difference, a, b, call, called, samples,
                   df, ticks, x_ticks>>

\* faulty variant: the readings are subtracted the wrong way round
ElapsedReversed(dt, loops) == [num |-> 0 - dt, den |-> loops]

\* elapsed = (t1 - t0) / loops
Elapsed(dt, loops) == [num |-> dt, den |-> loops]

\* row = [name, length, first_difference, elapsed]
Row(name, length, d, elapsed) == <<name, length, d, elapsed>>

\* faulty variant: the file is rewritten for every row
WriteRowTruncating(file, row) == [file EXCEPT !.lines = <<file.lines[1], row>>]

\* writer.writerow(row)
WriteRow(file, row) == [file EXCEPT !.lines = Append(@, row)]

\* the warm-up calls, the timed calls, the average and the row of one sample
TimeSample ==
    /\ prog = "stats" /\ pc = "time"
    /\ LET name == order[k]
           loops == loops_config[name]
           warm == Calls(name, a, b, args.warmups, "warmup")
           timed == Calls(name, a, b, loops, "timed")
       IN
       /\ call' \in (IF loops > 0 THEN timed ELSE warm)
       /\ called' = IF args.warmups > 0 \/ loops > 0
                    THEN called \cup {name} ELSE called
       /\ \E dt \in Durations(rng) :
            IF loops = 0
            THEN /\ Raise("ZeroDivisionError", 223)
                 /\ UNCHANGED <<i, k>>
            ELSE /\ f' = WriteRow(f, Row(name, args.length, first_difference,
                                         Elapsed(dt, loops)))
                 /\ IF i + 1 <= args.num_values
                    THEN i' = i + 1 /\ pc' = "sample" /\ k' = k
                    ELSE i' = i /\ pc' = "bench" /\ k' = k + 1
                 /\ UNCHANGED error
       /\ rng' = Advance(rng, 1)
    /\ UNCHANGED <<prog, FUNCTIONS, args, max_difference_index, loops_config,
                   order, tmp, potential_loops, trial, calib_log,
                   first_difference, a, b, samples, df, ticks, x_ticks>>

----------------------------------------------------------------------------
(* plots.py main() *)

n_ticks == 8

RECURSIVE Unique(_)
Unique(col) ==
    IF col = <<>> THEN <<>>
    ELSE LET rest == Unique(SubSeq(col, 1, Len(col) - 1))
             last == col[Len(col)]
         IN IF \E j \in DOMAIN rest : rest[j] = last THEN rest
            ELSE Append(rest, last)

RECURSIVE InsertInt(_, _)
InsertInt(sortedSeq, v) ==
    IF sortedSeq = <<>> THEN <<v>>
    ELSE IF v < Head(sortedSeq) THEN <<v>> \o sortedSeq
    ELSE <<Head(sortedSeq)>> \o InsertInt(Tail(sortedSeq), v)

RECURSIVE SortInts(_)
SortInts(col) ==
    IF col = <<>> THEN <<>>
    ELSE InsertInt(SortInts(SubSeq(col, 1, Len(col) - 1)), col[Len(col)])

\* divisor = max(1, int(len(ticks) // n_ticks))
Divisor(t) == Max(1, Len(t) \div n_ticks)

\* [i if i % divisor == 0 else None for i in ticks]
XTicks(t) ==
    [j \in DOMAIN t |-> IF t[j] % Divisor(t) = 0 THEN Some(t[j]) ELSE None]

\* pandas.read_csv(filename, header=0, usecols=[...]): the "first difference" column
ReadColumn(lines) ==
    LET col == CHOOSE c \in DOMAIN HEADER : HEADER[c] = "first difference"
    IN [j \in 1..(Len(lines) - 1) |-> lines[j + 1][col]]

\* the visualizer is run on the file the generator wrote
ReadCsv ==
    /\ prog = "stats" /\ pc = "done"
    /\ prog' = "plots"
    /\ df' = ReadColumn(f.lines)
    /\ pc' = "loaded"
    /\ UNCHANGED <<FUNCTIONS, args, rng, error, max_difference_index,
                   loops_config, k, order, tmp, potential_loops, trial,
                   calib_log, f, i, first_difference, a, b, call, called,
                   samples, ticks, x_ticks>>

\* ticks = df["first difference"].unique(); ticks.sort(); divisor; x_ticks
ComputeTicks ==
    /\ prog = "plots" /\ pc = "loaded"
    /\ ticks' = SortInts(Unique(df))
    /\ x_ticks' = XTicks(ticks')
    /\ pc' = "plotted"
    /\ UNCHANGED <<prog, FUNCTIONS, args, rng, error, max_difference_index,
                   loops_config, k, order, tmp, potential_loops, trial,
                   calib_log, f, i, first_difference, a, b, call, called,
                   samples, df>>

----------------------------------------------------------------------------
(* Initial states *)

AllNames == BaseNames \cup {"compare_digest"}

\* The functions argument (nargs="*" with a default) is never an empty list.

EmptyMap == [x \in {} |-> 0]

DefaultArgs ==
    [length |-> 16, max_difference_index |-> None, num_values |-> 1,
     warmups |-> 10, loops |-> None, min_time |-> 1, print_every |-> 100,
     functions |-> function_names(AllNames)]

\* Small command lines with a fixed --loops, each run against every outcome
\* of the environment.
FixedLoopsArgs ==
    {[length |-> l, max_difference_index |-> m, num_values |-> n,
      warmups |-> w, loops |-> lp, min_time |-> 1, print_every |-> p,
      functions |-> fs] :
        l \in 0..MaxLength,
        m \in {None} \cup {Some(v) : v \in 0..MaxLength},
        n \in 0..MaxNumValues,
        w \in {1},
        lp \in {Some(0), Some(2)},
        p \in {0, 2},
        fs \in {<<"equals_operator">>, <<"xor_bytes">>, <<"hash_compare">>,
                 <<UnknownName>>}}

\* Small command lines whose loop counts are calibrated, each run against
\* every outcome of the environment.
CalibratedArgs ==
    {[length |-> l, max_difference_index |-> None, num_values |-> n,
      warmups |-> w, loops |-> None, min_time |-> t, print_every |-> 2,
      functions |-> fs] :
        l \in {1, 2},
        n \in 0..MaxNumValues,
        w \in {0, 1},
        t \in {0, 1},
        fs \in {<<name>> : name \in AllNames \cup {UnknownName}}}

ExhaustiveArgs == FixedLoopsArgs \cup CalibratedArgs

\* Longer runs, each against NumSeeds replays of the environment.
ReplayArgs ==
    {[DefaultArgs EXCEPT !.length = 8, !.num_values = 10,
                         !.functions = <<"equals_operator", "xor_bytes">>]}
    \cup
    {[DefaultArgs EXCEPT !.length = l, !.num_values = MaxNumValues + 1,
                         !.loops = lp, !.print_every = 2, !.functions = fs] :
        l \in {MaxLength + 1},
        lp \in {None, Some(3)},
        fs \in {function_names(AllNames), function_names(BaseNames),
                <<"xor_bytes", "andeq">>, <<"andeq", "andeq">>,
                <<UnknownName, "andeq">>, <<"xor_bytes", UnknownName>>,
                <<"hash_compare", "compare_digest", "andeq">>}}

\* the state in which script p starts
Start(p, ar, registry, r, at, column) ==
    /\ prog = p
    /\ FUNCTIONS = registry
    /\ args = ar
    /\ rng = r
    /\ pc = at
    /\ error = None
    /\ max_difference_index = 0
    /\ loops_config = EmptyMap
    /\ k = 0
    /\ order = <<>>
    /\ tmp = <<>>
    /\ potential_loops = 0
    /\ trial = <<>>
    /\ calib_log = EmptyMap
    /\ f = [state |-> "absent", lines |-> <<>>]
    /\ i = 0
    /\ first_difference = 0
    /\ a = <<>>
    /\ b = <<>>
    /\ call = None
    /\ called = {}
    /\ samples = <<>>
    /\ df = column
    /\ ticks = <<>>
    /\ x_ticks = <<>>

RECURSIVE Descending(_)
Descending(S) ==
    IF S = {} THEN <<>>
    ELSE LET m == CHOOSE v \in S : \A w \in S : w <= v
         IN <<m>> \o Descending(S \ {m})

\* a column holding the values of S, each twice, unsorted
ColumnOf(S) == Descending(S) \o Descending(S)

InitExhaustive ==
    \E ar \in ExhaustiveArgs : Start("stats", ar, AllNames, None, "start", <<>>)

InitReplay ==
    \E ar \in ReplayArgs, registry \in {AllNames, BaseNames}, s \in 0..(NumSeeds - 1) :
        Start("stats", ar, registry, Some(s), "start", <<>>)

InitPlots ==
    \E S \in SUBSET (0..MaxDiffValue) :
        Start("plots", DefaultArgs, AllNames, None, "loaded", ColumnOf(S))

Init == InitExhaustive \/ InitReplay \/ InitPlots

Next ==
    \/ ParseArgs
    \/ ConfigureFixed
    \/ CalibrateBegin
    \/ CalibrateMeasure
    \/ Report
    \/ OpenFile
    \/ BenchNext
    \/ BenchDone
    \/ SampleBegin
    \/ Regenerate
    \/ AssertPair
    \/ TimeSample
    \/ ReadCsv
    \/ ComputeTicks

Spec == Init /\ [][Next]_vars

----------------------------------------------------------------------------
(* Properties *)

Range(seq) == {seq[j] : j \in DOMAIN seq}

\* the data rows of the output file
DataRows == IF Len(f.lines) >= 1 THEN Tail(f.lines) ELSE <<>>

Raised(type, line) ==
    pc = "raised" /\ error = Some([type |-> type, line |-> line])

NonNegative(t) == t.den > 0 /\ t.num >= 0

Finished == prog = "stats" /\ pc = "done"

\* C1: every registered strategy, called on two strings of equal length,
\* returns a boolean that is true exactly when the strings are identical.
C1_StrategiesDecideEquality ==
    \A c \in Range(call) :
        Len(c.a) = Len(c.b) => c.ret \in BOOLEAN /\ (c.ret <=> c.a = c.b)

\* C2: the assertion before a sample never fails: the pair handed to the
\* strategy has the configured length on both sides, is unequal, agrees on
\* the first first_difference characters and differs at first_difference.
C2_PairHandedToStrategy ==
    /\ ~Raised("AssertionError", 212)
    /\ ~Raised("IndexError", 206)
    /\ pc = "time" =>
         /\ first_difference \in 0..max_difference_index
         /\ max_difference_index < args.length
         /\ Len(a) = args.length /\ Len(b) = args.length
         /\ a # b
         /\ \A j \in 1..first_difference : a[j] = b[j]
         /\ a[first_difference + 1] # b[first_difference + 1]
    /\ \A c \in Range(call) :
         c.kind \in {"warmup", "timed"} =>
             /\ Len(c.a) = args.length /\ Len(c.b) = args.length
             /\ c.a # c.b
             /\ \A j \in 1..first_difference : c.a[j] = c.b[j]
             /\ c.a[first_difference + 1] # c.b[first_difference + 1]

C2_Witness ==
    /\ pc = "time"
    /\ IsNone(rng)
    /\ first_difference = 1
    /\ Len(a) = 2
    /\ a[2] = "a" /\ b[2] = "b"

\* C3: a requested name that is not registered aborts the run before any
\* strategy is called and before the output file is opened.
C3_UnknownNameAbortsBeforeWork ==
    (\E n \in Range(args.functions) : n \notin FUNCTIONS) /\ prog = "stats" =>
        /\ called = {}
        /\ f.state = "absent"
        /\ pc # "done"

\* C4: a maximum difference index (given or defaulted) that is not below the
\* length ends the run with the configuration error before any strategy is
\* calibrated or called and before the output file is touched.
C4_BadMaxDifferenceIndexFailsFirst ==
    LET m == IF IsNone(args.max_difference_index)
             THEN args.length - 1 ELSE Val(args.max_difference_index)
    IN prog = "stats" /\ pc # "start" /\ m >= args.length =>
        /\ Raised("ValueError", 158)
        /\ called = {}
        /\ DOMAIN loops_config = {}
        /\ DOMAIN calib_log = {}
        /\ IsNone(call)
        /\ f = [state |-> "absent", lines |-> <<>>]

C4_Witness ==
    /\ Raised("ValueError", 158)
    /\ args.max_difference_index = Some(args.length)
    /\ args.functions # <<>>
    /\ args.num_values > 0

\* C5: a calibrated loop count is the smallest power of two whose measured
\* run met the threshold: the runs tried are 1, 2, 4, ... calls, every run
\* but the last took less than min_time, the last took at least min_time,
\* and its size is the loop count of every timed sample of the strategy.
C5_CalibratedLoopCount ==
    /\ \A name \in DOMAIN calib_log :
         LET h == calib_log[name] IN
         /\ Len(h) >= 1
         /\ \A j \in DOMAIN h :
              /\ h[j].n = 2 ^ (j - 1)
              /\ j < Len(h) => h[j].dt < args.min_time
         /\ h[Len(h)].dt >= args.min_time
         /\ name \in DOMAIN loops_config
         /\ loops_config[name] = h[Len(h)].n
    /\ IsNone(args.loops) =>
         \A j \in DOMAIN DataRows :
            /\ DataRows[j][1] \in DOMAIN calib_log
            /\ DataRows[j][4].den =
                 calib_log[DataRows[j][1]][Len(calib_log[DataRows[j][1]])].n

C5_Witness ==
    /\ IsNone(args.loops) /\ IsNone(rng)
    /\ Len(DataRows) >= 1
    /\ DataRows[1][4].den = 4
    /\ Len(calib_log[DataRows[1][1]]) = 3

\* C6: after a run that completes, the file holds the header row followed by
\* exactly num_values x (number of requested strategies) data rows of four
\* cells each, and the visualizer's reader gets that many rows from it.
C6_FileShape ==
    /\ Finished =>
         /\ f.state = "closed"
         /\ Len(f.lines) >= 1
         /\ f.lines[1] = HEADER
         /\ Len(DataRows) = args.num_values * Len(args.functions)
         /\ \A j \in DOMAIN DataRows :
              /\ Len(DataRows[j]) = 4
              /\ DataRows[j][1] \in Range(args.functions)
              /\ DataRows[j][2] = args.length
              /\ DataRows[j][3] \in Int
              /\ DataRows[j][4].num \in Int /\ DataRows[j][4].den \in Int
    /\ prog = "plots" /\ f.state = "closed" =>
         Len(df) = args.num_values * Len(args.functions)

C6_Witness ==
    /\ prog = "plots" /\ pc = "loaded" /\ f.state = "closed"
    /\ IsNone(rng)
    /\ args.num_values = 2
    /\ Len(df) = 2

\* the end-to-end scenario: length 8, 10 samples, equals_operator and xor_bytes
E2EScenario ==
    /\ prog = "stats"
    /\ args.length = 8
    /\ args.num_values = 10
    /\ Range(args.functions) = {"equals_operator", "xor_bytes"}
    /\ Len(args.functions) = 2

E2ERowsOk ==
    \A j \in DOMAIN DataRows :
        /\ DataRows[j][3] \in 0..7
        /\ DataRows[j][1] \in {"equals_operator", "xor_bytes"}
        /\ NonNegative(DataRows[j][4])

\* C7 as stated: the scenario's file has 11 lines (1 header + 10 rows), every
\* first difference in [0,7], every function requested, every time >= 0.
C7_ElevenLines ==
    E2EScenario /\ pc = "done" => Len(f.lines) = 11 /\ E2ERowsOk

\* C7 amended: the scenario's file has 21 lines (1 header + 10 rows for each
\* of the two strategies), every first difference in [0,7], every function
\* requested, every time >= 0.
C7_TwentyOneLines ==
    E2EScenario /\ pc = "done" =>
        /\ Len(f.lines) = 21
        /\ f.lines[1] = HEADER
        /\ E2ERowsOk
        /\ \A n \in {"equals_operator", "xor_bytes"} :
             Cardinality({j \in DOMAIN DataRows : DataRows[j][1] = n}) = 10

C7_Witness ==
    /\ E2EScenario /\ pc = "done"
    /\ \E j \in DOMAIN DataRows : DataRows[j][3] = 7 /\ DataRows[j][4].num > 0

\* C8: the data rows are grouped by strategy in sorted order of the names,
\* whatever the order of the names on the command line, and the rows are in
\* the order in which the samples were generated.
C8_RowsGroupedInSortedOrder ==
    prog = "stats" =>
    /\ \A j, l \in DOMAIN DataRows :
         j < l => NameRank(DataRows[j][1]) <= NameRank(DataRows[l][1])
    /\ Len(DataRows) <= Len(samples)
    /\ \A j \in DOMAIN DataRows :
         /\ DataRows[j][1] = samples[j].name
         /\ DataRows[j][3] = samples[j].d

C8_Witness ==
    /\ Finished
    /\ args.functions = <<"xor_bytes", "andeq">>
    /\ Len(DataRows) >= 4
    /\ DataRows[1][1] = "andeq"
    /\ DataRows[1][3] # DataRows[2][3]

\* C9: the reduced tick set shows at most n_ticks labels, and the labels
\* shown are evenly spaced by index in the sorted distinct values.
C9_AtMostNTicksEvenlySpaced ==
    prog = "plots" /\ pc = "plotted" =>
        LET shown == {j \in DOMAIN x_ticks : ~IsNone(x_ticks[j])} IN
        /\ Cardinality(shown) <= n_ticks
        /\ \E step \in 1..(Len(x_ticks) + 1) :
             shown = {j \in DOMAIN x_ticks : (j - 1) % step = 0}

\* C10: a command line with length >= 1, 0 <= max_difference_index < length,
\* registered names and a positive (or calibrated) loop count raises nothing
\* (stated here for a non-zero --print-every).
C10_ValidConfigRaisesNothing ==
    LET m == IF IsNone(args.max_difference_index)
             THEN args.length - 1 ELSE Val(args.max_difference_index)
    IN  /\ prog = "stats"
        /\ args.length >= 1
        /\ 0 <= m /\ m < args.length
        /\ Range(args.functions) \subseteq FUNCTIONS
        /\ \A l \in Range(args.loops) : l > 0
        /\ args.print_every # 0
        => pc # "raised"

====
